---- MODULE Spec2Model ----
(***************************************************************************)
(* Model of robot_api/main.py: the token store (load_or_create_token),     *)
(* the access gate (require_auth: _is_trusted_host, _auth) and the wifi    *)
(* endpoints of create_app.                                                *)
(*                                                                         *)
(* Text is modelled as a sequence of one-character strings, so that        *)
(* str.startswith, str.removeprefix, str.strip and the parsing done by     *)
(* ipaddress.ip_address are computed character by character.               *)
(***************************************************************************)
EXTENDS Integers, Sequences, FiniteSets, TLC

----------------------------------------------------------------------------
(* Text helpers (Python str methods used by main.py)                       *)

\* Characters that str.strip() removes (ASCII whitespace used by the model).
Whitespace == {" ", "\n", "\t"}

\* s[i:] for a 1-based i
DropFirst(s, n) == IF n >= Len(s) THEN << >> ELSE SubSeq(s, n + 1, Len(s))

\* str.startswith(prefix)
startswith(s, prefix) ==
    /\ Len(s) >= Len(prefix)
    /\ \A i \in 1..Len(prefix) : s[i] = prefix[i]

\* str.removeprefix(prefix)
removeprefix(s, prefix) ==
    IF startswith(s, prefix) THEN DropFirst(s, Len(prefix)) ELSE s

\* str.strip(): drop leading and trailing whitespace
strip(s) ==
    LET keep == {i \in 1..Len(s) : s[i] \notin Whitespace}
    IN  IF keep = {} THEN << >>
        ELSE LET lo == CHOOSE i \in keep : \A j \in keep : i <= j
                 hi == CHOOSE i \in keep : \A j \in keep : i >= j
             IN  SubSeq(s, lo, hi)

\* str.split(sep) for a one-character separator: the list of fields
RECURSIVE split(_, _)
split(s, sep) ==
    LET at == {i \in 1..Len(s) : s[i] = sep}
    IN  IF at = {} THEN << s >>
        ELSE LET k == CHOOSE i \in at : \A j \in at : i <= j
             IN  << SubSeq(s, 1, k - 1) >> \o split(DropFirst(s, k), sep)

----------------------------------------------------------------------------
(* ipaddress.ip_address as used by _is_trusted_host                        *)

DecDigits == <<"0", "1", "2", "3", "4", "5", "6", "7", "8", "9">>
HexDigits == <<"0", "1", "2", "3", "4", "5", "6", "7", "8", "9",
               "a", "b", "c", "d", "e", "f">>

IsDec(c) == \E i \in 1..Len(DecDigits) : DecDigits[i] = c
IsHex(c) == \E i \in 1..Len(HexDigits) : HexDigits[i] = c
HexVal(c) == (CHOOSE i \in 1..Len(HexDigits) : HexDigits[i] = c) - 1

\* int(s, base) for a text of digits of that base
RECURSIVE ToInt(_, _)
ToInt(s, base) ==
    IF s = << >> THEN 0
    ELSE ToInt(SubSeq(s, 1, Len(s) - 1), base) * base + HexVal(s[Len(s)])

\* IPv4Address._parse_octet: decimal digits only, at most three, no leading
\* zero on a multi-digit octet, value at most 255
OctetOk(o) ==
    /\ Len(o) \in 1..3
    /\ \A i \in 1..Len(o) : IsDec(o[i])
    /\ (Len(o) > 1 => o[1] # "0")
    /\ ToInt(o, 10) <= 255

\* IPv4Address._ip_int_from_string: exactly four valid octets
IsV4(host) ==
    LET parts == split(host, ".")
    IN  /\ Len(parts) = 4
        /\ \A i \in 1..4 : OctetOk(parts[i])

\* the four octets of a parsed IPv4 address
V4Octets(host) ==
    LET parts == split(host, ".") IN [i \in 1..4 |-> ToInt(parts[i], 10)]

\* '%x' % n
RECURSIVE ToHex(_)
ToHex(n) ==
    IF n < 16 THEN << HexDigits[n + 1] >>
    ELSE ToHex(n \div 16) \o << HexDigits[(n % 16) + 1] >>

\* IPv6Address._split_scope_id: the address text before an optional %scope;
\* a "%" followed by nothing, or a second "%", is a parse error
ScopeOk(host) ==
    LET f == split(host, "%")
    IN  Len(f) = 1 \/ (Len(f) = 2 /\ f[2] # << >>)
V6Addr(host) == split(host, "%")[1]

\* IPv6Address._ip_int_from_string, first half: the ":"-separated fields,
\* with an IPv4-style last field replaced by its two hextets
V6TailIsV4(f) == \E i \in 1..Len(f[Len(f)]) : f[Len(f)][i] = "."
V6Parts(addr) ==
    LET f == split(addr, ":")
    IN  IF Len(f) >= 3 /\ V6TailIsV4(f) /\ IsV4(f[Len(f)])
        THEN LET o == V4Octets(f[Len(f)])
             IN  SubSeq(f, 1, Len(f) - 1)
                    \o << ToHex(o[1] * 256 + o[2]), ToHex(o[3] * 256 + o[4]) >>
        ELSE f

\* IPv6Address._parse_hextet: one to four hexadecimal digits
HextetOk(h) == Len(h) \in 1..4 /\ \A i \in 1..Len(h) : IsHex(h[i])

\* positions (other than the two ends) of an empty field: the "::"
V6Skips(parts) == {i \in 2..(Len(parts) - 1) : parts[i] = << >>}

\* number of leading (hi) and trailing (lo) hextets around the "::"
V6Hi(parts) ==
    IF V6Skips(parts) = {} THEN Len(parts)
    ELSE LET k == CHOOSE i \in V6Skips(parts) : TRUE
         IN  IF parts[1] = << >> THEN k - 2 ELSE k - 1
V6Lo(parts) ==
    IF V6Skips(parts) = {} THEN 0
    ELSE LET k == CHOOSE i \in V6Skips(parts) : TRUE
         IN  IF parts[Len(parts)] = << >> THEN Len(parts) - k - 1
             ELSE Len(parts) - k

\* IPv6Address._ip_int_from_string accepts the text
IsV6(host) ==
    /\ ScopeOk(host)
    /\ LET f     == split(V6Addr(host), ":")
           parts == V6Parts(V6Addr(host))
           n     == Len(parts)
           skips == V6Skips(parts)
       IN  /\ Len(f) >= 3
           /\ (V6TailIsV4(f) => IsV4(f[Len(f)]))
           /\ n <= 9
           /\ Cardinality(skips) <= 1
           /\ IF skips # {}
              THEN /\ (parts[1] = << >> => V6Hi(parts) = 0)
                   /\ (parts[n] = << >> => V6Lo(parts) = 0)
                   /\ 8 - (V6Hi(parts) + V6Lo(parts)) >= 1
              ELSE /\ n = 8
                   /\ parts[1] # << >>
                   /\ parts[n] # << >>
           /\ \A i \in 1..V6Hi(parts) :
                 HextetOk(parts[IF skips # {} /\ parts[1] = << >>
                                THEN i + 1 ELSE i])
           /\ \A i \in 1..V6Lo(parts) :
                 HextetOk(parts[IF parts[n] = << >> THEN n - 1 - V6Lo(parts) + i
                                ELSE n - V6Lo(parts) + i])

\* the eight hextets of a parsed IPv6 address
V6Hextets(host) ==
    LET parts == V6Parts(V6Addr(host))
        n     == Len(parts)
        hi    == V6Hi(parts)
        lo    == V6Lo(parts)
        hoff  == IF V6Skips(parts) # {} /\ parts[1] = << >> THEN 1 ELSE 0
        loff  == IF parts[n] = << >> THEN n - 1 - lo ELSE n - lo
    IN  [i \in 1..8 |->
            IF i <= hi THEN ToInt(parts[i + hoff], 16)
            ELSE IF i > 8 - lo THEN ToInt(parts[loff + (i - (8 - lo))], 16)
            ELSE 0]

----------------------------------------------------------------------------
(* IPv4Address / IPv6Address properties read by _is_trusted_host           *)

\* _IPv4Constants._loopback_network 127.0.0.0/8
V4Loopback(o) == o[1] = 127
\* _IPv4Constants._linklocal_network 169.254.0.0/16
V4LinkLocal(o) == o[1] = 169 /\ o[2] = 254
\* the three RFC1918 blocks
V4Rfc1918(o) ==
    \/ o[1] = 10
    \/ o[1] = 172 /\ o[2] \in 16..31
    \/ o[1] = 192 /\ o[2] = 168
\* IPv4Address.is_private: membership of _IPv4Constants._private_networks
V4Private(o) ==
    \/ o[1] = 0
    \/ V4Rfc1918(o)
    \/ V4Loopback(o)
    \/ V4LinkLocal(o)
    \/ o[1] = 192 /\ o[2] = 0 /\ o[3] = 0 /\ o[4] \in 0..7
    \/ o[1] = 192 /\ o[2] = 0 /\ o[3] = 0 /\ o[4] \in 170..171
    \/ o[1] = 192 /\ o[2] = 0 /\ o[3] = 2
    \/ o[1] = 198 /\ o[2] \in 18..19
    \/ o[1] = 198 /\ o[2] = 51 /\ o[3] = 100
    \/ o[1] = 203 /\ o[2] = 0 /\ o[3] = 113
    \/ o[1] >= 240

\* IPv6Address.is_loopback: the address ::1
V6Loopback(h) == (\A i \in 1..7 : h[i] = 0) /\ h[8] = 1
\* _IPv6Constants._linklocal_network fe80::/10
V6LinkLocal(h) == h[1] \in 65152..65215
\* unique-local fc00::/7
V6UniqueLocal(h) == h[1] \in 64512..65023
\* IPv6Address.ipv4_mapped: ::ffff:a.b.c.d
V6Mapped(h) == (\A i \in 1..5 : h[i] = 0) /\ h[6] = 65535
V6MappedOctets(h) ==
    << h[7] \div 256, h[7] % 256, h[8] \div 256, h[8] % 256 >>
\* IPv6Address.is_private: the mapped IPv4 address decides when there is
\* one, else membership of _IPv6Constants._private_networks
V6Private(h) ==
    IF V6Mapped(h) THEN V4Private(V6MappedOctets(h))
    ELSE \/ (\A i \in 1..7 : h[i] = 0) /\ h[8] \in {0, 1}
         \/ h[1] = 256 /\ h[2] = 0 /\ h[3] = 0 /\ h[4] = 0
         \/ h[1] = 8193 /\ h[2] \in 0..511
         \/ h[1] = 8193 /\ h[2] = 3512
         \/ V6UniqueLocal(h)
         \/ V6LinkLocal(h)

----------------------------------------------------------------------------
(* require_auth                                                            *)

localhost == <<"l", "o", "c", "a", "l", "h", "o", "s", "t">>
LiteralHosts == { <<"1", "2", "7", ".", "0", ".", "0", ".", "1">>,
                  <<":", ":", "1">>,
                  localhost }

\* _is_trusted_host without the shortcut for the three literal names
_is_trusted_host_noliterals(host) ==
    IF host = << >> THEN FALSE
    ELSE IF IsV4(host)
         THEN LET o == V4Octets(host)
              IN  V4Loopback(o) \/ V4Private(o) \/ V4LinkLocal(o)
    ELSE IF IsV6(host)
         THEN LET h == V6Hextets(host)
              IN  V6Loopback(h) \/ V6Private(h) \/ V6LinkLocal(h)
    ELSE FALSE

\* _is_trusted_host(host)
_is_trusted_host(host) ==
    IF host = << >> THEN FALSE
    ELSE IF host \in LiteralHosts THEN TRUE
    ELSE IF IsV4(host)
         THEN LET o == V4Octets(host)
              IN  V4Loopback(o) \/ V4Private(o) \/ V4LinkLocal(o)
    ELSE IF IsV6(host)
         THEN LET h == V6Hextets(host)
              IN  V6Loopback(h) \/ V6Private(h) \/ V6LinkLocal(h)
    ELSE FALSE

HealthPath == <<"/", "h", "e", "a", "l", "t", "h">>
WifiPath == <<"/", "w", "i", "f", "i">>
WifiClearPath == <<"/", "w", "i", "f", "i", "/", "c", "l", "e", "a", "r">>
StatsPath == <<"/", "s", "t", "a", "t", "s">>

Bearer == <<"B", "e", "a", "r", "e", "r", " ">>

\* _auth comparing the credential without .strip()
_auth_nostrip(path, client_host, header, required_token) ==
    IF path = HealthPath THEN 0
    ELSE IF _is_trusted_host(client_host) THEN 0
    ELSE IF ~startswith(header, Bearer) THEN 401
    ELSE IF removeprefix(header, Bearer) # required_token THEN 403
    ELSE 0

\* _auth looking at the header before the peer
_auth_headerfirst(path, client_host, header, required_token) ==
    IF path = HealthPath THEN 0
    ELSE IF ~startswith(header, Bearer) THEN 401
    ELSE IF _is_trusted_host(client_host) THEN 0
    ELSE IF strip(removeprefix(header, Bearer)) # required_token THEN 403
    ELSE 0

\* _auth with path.startswith("/health") for the health bypass
_auth_prefix(path, client_host, header, required_token) ==
    IF startswith(path, HealthPath) THEN 0
    ELSE IF _is_trusted_host(client_host) THEN 0
    ELSE IF ~startswith(header, Bearer) THEN 401
    ELSE IF strip(removeprefix(header, Bearer)) # required_token THEN 403
    ELSE 0

\* _auth(request): 0 when the dependency returns (the request goes on to its
\* handler), else the status code of the HTTPException it raises
_auth(path, client_host, header, required_token) ==
    IF path = HealthPath THEN 0
    ELSE IF _is_trusted_host(client_host) THEN 0
    ELSE IF ~startswith(header, Bearer) THEN 401
    ELSE IF strip(removeprefix(header, Bearer)) # required_token THEN 403
    ELSE 0

----------------------------------------------------------------------------
(* Input domains                                                           *)

\* longest token text (and Authorization credential) that is enumerated
MaxTokLen == 2

\* all texts over the alphabet cs of length at most n
RECURSIVE Texts(_, _)
Texts(cs, n) ==
    IF n = 0 THEN { << >> }
    ELSE LET shorter == Texts(cs, n - 1)
         IN  shorter \cup {Append(t, c) : t \in shorter, c \in cs}

\* what can follow the scheme in an Authorization header
Credentials == Texts({"a", "b", " "}, MaxTokLen)

\* Authorization header values: absent (""), a bare credential, and a
\* credential behind a right, truncated, misspelt or indented scheme
Schemes == { << >>, Bearer, SubSeq(Bearer, 1, 6),
             <<"b", "e", "a", "r", "e", "r", " ">>,
             <<" ">> \o Bearer }
Headers == {s \o c : s \in Schemes, c \in Credentials}

\* tokens create_app can hold: whatever load_or_create_token returns
RequiredTokens == {strip(c) : c \in Credentials}

\* request.url.path values
Paths == { HealthPath, HealthPath \o <<"/">>, HealthPath \o <<"z">>,
           WifiPath, WifiClearPath, StatsPath }

\* request.client.host values ("" stands for a request without client)
Hosts == { << >>,
           <<"1", "2", "7", ".", "0", ".", "0", ".", "1">>,
           <<":", ":", "1">>,
           <<"l", "o", "c", "a", "l", "h", "o", "s", "t">>,
           <<"1", "0", ".", "0", ".", "0", ".", "5">>,
           <<"1", "7", "2", ".", "1", "6", ".", "0", ".", "1">>,
           <<"1", "7", "2", ".", "3", "2", ".", "0", ".", "1">>,
           <<"1", "9", "2", ".", "1", "6", "8", ".", "1", ".", "7">>,
           <<"1", "2", "7", ".", "0", ".", "0", ".", "2">>,
           <<"1", "6", "9", ".", "2", "5", "4", ".", "1", ".", "1">>,
           <<"8", ".", "8", ".", "8", ".", "8">>,
           <<"e", "x", "a", "m", "p", "l", "e", ".", "c", "o", "m">>,
           <<"f", "e", "8", "0", ":", ":", "1">>,
           <<"f", "c", "0", "0", ":", ":", "1">>,
           <<"2", "0", "0", "1", ":", "4", "8", "6", "0", ":", ":", "8", "8", "8", "8">>,
           <<":", ":", "f", "f", "f", "f", ":", "8", ".", "8", ".", "8", ".", "8">>,
           <<":", ":", "f", "f", "f", "f", ":", "1", "0", ".", "0", ".", "0", ".", "1">>,
           <<"0", "1", "0", ".", "0", ".", "0", ".", "1">>,
           <<"1", "9", "2", ".", "0", ".", "2", ".", "1">>,
           <<"1", "0", "0", ".", "6", "4", ".", "0", ".", "1">>,
           <<"f", "e", "8", "0", ":", ":", "1", "%", "e", "t", "h", "0">>,
           <<"2", "0", "0", "1", ":", "d", "b", "8", ":", ":", "1">>,
           <<"1", ".", "2", ".", "3">>,
           <<":", ":">> }

\* decimal text of a number, as a peer address carries it
RECURSIVE Dec(_)
Dec(n) ==
    IF n < 10 THEN << DecDigits[n + 1] >>
    ELSE Dec(n \div 10) \o << DecDigits[(n % 10) + 1] >>

Dotted(o) ==
    Dec(o[1]) \o <<".">> \o Dec(o[2]) \o <<".">> \o Dec(o[3]) \o <<".">>
    \o Dec(o[4])

\* IPv4 peers around the borders of every block the classifier knows
PeerFirst  == {0, 8, 10, 11, 100, 127, 169, 172, 192, 198, 203, 240}
PeerSecond == {0, 15, 16, 31, 32, 18, 51, 168, 254}
PeerThird  == {0, 2, 100, 113}
PeerLast   == {1, 200}
Peers ==
    Hosts \cup { Dotted(<< a, b, c, e >>) :
                     a \in PeerFirst, b \in PeerSecond, c \in PeerThird,
                     e \in PeerLast }

\* peers used to exercise the gate: trusted and untrusted of every kind
GateHosts == { << >>, localhost,
               <<"1", "0", ".", "0", ".", "0", ".", "5">>,
               <<"8", ".", "8", ".", "8", ".", "8">>,
               <<"e", "x", "a", "m", "p", "l", "e", ".", "c", "o", "m">>,
               <<"f", "e", "8", "0", ":", ":", "1">>,
               <<"2", "0", "0", "1", ":", "4", "8", "6", "0", ":", ":", "8", "8", "8", "8">>,
               <<"1", "7", "2", ".", "3", "2", ".", "0", ".", "1">> }

----------------------------------------------------------------------------
(* State                                                                   *)

VARIABLES
    \* one evaluation of the gate as a function of its four inputs
    call,        \* [path, client_host, header, required_token]
    verdict,     \* -1 before _auth has run, then its outcome
    \* the token store: the file at token_path and the processes starting up
    file,        \* [exists, content] of token_path
    tpc,         \* where each process is inside load_or_create_token
    tok,         \* the local variable token of each process
    ret,         \* what load_or_create_token returned to each process
    created,     \* the processes that took the "not path.exists()" branch
    started,     \* the processes in the order in which they made the call
    overlap,     \* a call was made while another was still in progress
    server,      \* how far each process got after load_or_create_token
    \* the running application
    token,       \* create_app's token, captured by require_auth
    conf,        \* the wifi configuration record (tasks.py collaborators)
    rpc,         \* where each request is
    req,         \* [endpoint, body] of each request
    resp,        \* the response of each request
    effects,     \* the collaborator calls made on behalf of each request
    persisted,   \* how the persistence call of each request ended
    switched,    \* how the run_switch call of each request ended
    lastWriter,  \* the request whose persistence step completed last
    seen,        \* for a GET /wifi: lastWriter when it read the record
    \* one classification of a peer address
    peer,        \* the host text given to _is_trusted_host
    trust,       \* "" before it has run, then "True" or "False"
    \* one process lifetime of the gate
    kept         \* an earlier evaluation of the gate: [call, verdict]

gateVars  == << call, verdict >>
storeVars == << file, tpc, tok, ret, created, started, overlap >>
appVars   == << token, conf, rpc, req, resp, effects, persisted, switched,
                lastWriter, seen >>
trustVars == << peer, trust >>
vars      == << call, verdict, file, tpc, tok, ret, created, started, overlap,
                server, token, conf, rpc, req, resp, effects, persisted,
                switched, lastWriter, seen, peer, trust, kept >>
\* what the steps of one part of the program leave alone
offGate   == << storeVars, server, appVars, trustVars, kept >>
offStore  == << gateVars, server, appVars, trustVars, kept >>
offApp    == << gateVars, storeVars, server, trustVars, kept >>

----------------------------------------------------------------------------
(* The gate as a function: SpecGate draws the inputs and applies _auth     *)

NoCall == [path |-> << >>, client_host |-> << >>, header |-> << >>,
           required_token |-> << >>]

GateIdle == call = NoCall /\ verdict = -1

\* no classification and no earlier evaluation on record
TrustIdle == peer = << >> /\ trust = ""
NoKept == [call |-> NoCall, verdict |-> -1, file |-> << >>]

GateInit ==
    /\ call \in [path : Paths, client_host : GateHosts, header : Headers,
                 required_token : RequiredTokens]
    /\ verdict = -1

\* the dependency reading the token file again for every request
Authorize_rereads ==
    /\ verdict = -1
    /\ verdict' = _auth(call.path, call.client_host, call.header,
                        IF file.exists THEN strip(file.content)
                        ELSE call.required_token)
    /\ UNCHANGED << call, offGate >>

\* the dependency runs for the request
Authorize ==
    /\ verdict = -1
    /\ verdict' = _auth(call.path, call.client_host, call.header,
                        call.required_token)
    /\ UNCHANGED << call, offGate >>

----------------------------------------------------------------------------
(* The classifier as a function: SpecTrust draws a peer and applies        *)
(* _is_trusted_host                                                        *)

TrustInit == peer \in Peers /\ trust = ""

\* client_host = request.client.host ...; _is_trusted_host(client_host)
Classify ==
    /\ trust = ""
    /\ trust' = IF _is_trusted_host(peer) THEN "True" ELSE "False"
    /\ UNCHANGED << peer, gateVars, storeVars, server, appVars, kept >>

----------------------------------------------------------------------------
(* The token store: SpecStore runs load_or_create_token in NProcs          *)
(* processes that start against the same token_path                        *)

\* processes that call load_or_create_token on the same path
NProcs == 2
\* secrets.token_hex(nbytes) yields 2 * nbytes hexadecimal digits; the
\* program asks for 32 bytes, the model for TokenBytes
TokenBytes == 1
Procs == 1..NProcs

\* the values secrets.token_hex(nbytes) can return: two hexadecimal digits
\* for each random byte (the model draws each byte from 0xa1 and 0x0b)
RECURSIVE token_hex(_)
token_hex(nbytes) ==
    IF nbytes = 0 THEN { << >> }
    ELSE {t \o b : t \in token_hex(nbytes - 1),
                   b \in { <<"a", "1">>, <<"0", "b">> }}

\* what an operator (or an earlier run) may have left at token_path
InitContents == { << >>, <<"a", "b">>, <<" ", "a", "b", "\n">>,
                  <<"a", " ", "b">>, <<"\n">> }

Absent == [exists |-> FALSE, content |-> << >>]

\* a call that has been made and has neither returned nor raised nor died
InProgress(p) ==
    tpc[p] \in {"check", "mkdir", "gen", "open", "write", "return", "read"}

StoreIdle ==
    /\ file = Absent
    /\ tpc = [p \in Procs |-> "idle"]
    /\ tok = [p \in Procs |-> << >>]
    /\ ret = [p \in Procs |-> << >>]
    /\ created = {}
    /\ started = << >>
    /\ overlap = FALSE
    /\ server = [p \in Procs |-> "none"]

StoreInit ==
    /\ file \in {Absent} \cup {[exists |-> TRUE, content |-> c] :
                                 c \in InitContents}
    /\ tpc = [p \in Procs |-> "idle"]
    /\ tok = [p \in Procs |-> << >>]
    /\ ret = [p \in Procs |-> << >>]
    /\ created = {}
    /\ started = << >>
    /\ overlap = FALSE
    /\ server = [p \in Procs |-> "none"]

\* create_app calls load_or_create_token(token_path)
Call(p) ==
    /\ tpc[p] = "idle"
    /\ tpc' = [tpc EXCEPT ![p] = "check"]
    /\ started' = Append(started, p)
    /\ overlap' = (overlap \/ \E q \in Procs : InProgress(q))
    /\ UNCHANGED << file, tok, ret, created >>
    /\ UNCHANGED offStore

\* Exists taking the creation branch whether or not the file is there
Exists_ignored(p) ==
    /\ tpc[p] = "check"
    /\ tpc' = [tpc EXCEPT ![p] = "mkdir"]
    /\ created' = created \cup {p}
    /\ UNCHANGED << file, tok, ret, started, overlap >>
    /\ UNCHANGED offStore

\* if not path.exists():
Exists(p) ==
    /\ tpc[p] = "check"
    /\ IF file.exists
       THEN tpc' = [tpc EXCEPT ![p] = "read"] /\ UNCHANGED created
       ELSE tpc' = [tpc EXCEPT ![p] = "mkdir"] /\ created' = created \cup {p}
    /\ UNCHANGED << file, tok, ret, started, overlap >>
    /\ UNCHANGED offStore

\* path.parent.mkdir(parents=True, exist_ok=True)
Mkdir(p) ==
    /\ tpc[p] = "mkdir"
    /\ tpc' = [tpc EXCEPT ![p] = "gen"]
    /\ UNCHANGED << file, tok, ret, created, started, overlap >>
    /\ UNCHANGED offStore

\* ... which raises when the directory cannot be created
MkdirFails(p) ==
    /\ tpc[p] = "mkdir"
    /\ tpc' = [tpc EXCEPT ![p] = "failed"]
    /\ UNCHANGED << file, tok, ret, created, started, overlap >>
    /\ UNCHANGED offStore

\* token = secrets.token_hex(32)
TokenHex(p) ==
    /\ tpc[p] = "gen"
    /\ \E t \in token_hex(TokenBytes) : tok' = [tok EXCEPT ![p] = t]
    /\ tpc' = [tpc EXCEPT ![p] = "open"]
    /\ UNCHANGED << file, ret, created, started, overlap >>
    /\ UNCHANGED offStore

\* data written at offset 0 of a file holding content
WriteAt0(content, data) == data \o DropFirst(content, Len(data))

\* path.write_text(token), first half: open(path, "w") creates the file or
\* truncates it to length zero
write_text_open(p) ==
    /\ tpc[p] = "open"
    /\ file' = [exists |-> TRUE, content |-> << >>]
    /\ tpc' = [tpc EXCEPT ![p] = "write"]
    /\ UNCHANGED << tok, ret, created, started, overlap >>
    /\ UNCHANGED offStore

\* ... which raises when the file cannot be opened for writing
write_text_fails(p) ==
    /\ tpc[p] = "open"
    /\ tpc' = [tpc EXCEPT ![p] = "failed"]
    /\ UNCHANGED << file, tok, ret, created, started, overlap >>
    /\ UNCHANGED offStore

\* path.write_text(token), second half: the data reaches the file when the
\* handle is written and closed
write_text_data(p) ==
    /\ tpc[p] = "write"
    /\ file' = [exists |-> TRUE, content |-> WriteAt0(file.content, tok[p])]
    /\ tpc' = [tpc EXCEPT ![p] = "return"]
    /\ UNCHANGED << tok, ret, created, started, overlap >>
    /\ UNCHANGED offStore

\* return token
ReturnNew(p) ==
    /\ tpc[p] = "return"
    /\ ret' = [ret EXCEPT ![p] = tok[p]]
    /\ tpc' = [tpc EXCEPT ![p] = "done"]
    /\ UNCHANGED << file, tok, created, started, overlap >>
    /\ UNCHANGED offStore

\* return path.read_text().strip()
ReadExisting(p) ==
    /\ tpc[p] = "read"
    /\ ret' = [ret EXCEPT ![p] = strip(file.content)]
    /\ tpc' = [tpc EXCEPT ![p] = "done"]
    /\ UNCHANGED << file, tok, created, started, overlap >>
    /\ UNCHANGED offStore

\* the process is killed (or the machine loses power) during the call
Crash(p) ==
    /\ InProgress(p)
    /\ tpc' = [tpc EXCEPT ![p] = "crashed"]
    /\ UNCHANGED << file, tok, ret, created, started, overlap >>
    /\ UNCHANGED offStore

\* create_app building the application although the token call raised
create_app_unguarded(p) ==
    /\ tpc[p] \in {"done", "failed"} /\ server[p] = "none"
    /\ server' = [server EXCEPT ![p] = "constructed"]
    /\ UNCHANGED << storeVars, gateVars, appVars, trustVars, kept >>

\* create_app: load_or_create_token has returned the token; the FastAPI
\* application is built around it and returned
create_app(p) ==
    /\ tpc[p] = "done" /\ server[p] = "none"
    /\ server' = [server EXCEPT ![p] = "constructed"]
    /\ UNCHANGED << storeVars, gateVars, appVars, trustVars, kept >>

\* main: uvicorn.run(create_app(), ...) binds the port and serves requests
main(p) ==
    /\ server[p] = "constructed"
    /\ server' = [server EXCEPT ![p] = "serving"]
    /\ UNCHANGED << storeVars, gateVars, appVars, trustVars, kept >>

load_or_create_token(p) ==
    \/ Call(p)
    \/ Exists(p)
    \/ Mkdir(p)
    \/ MkdirFails(p)
    \/ TokenHex(p)
    \/ write_text_open(p)
    \/ write_text_fails(p)
    \/ write_text_data(p)
    \/ ReturnNew(p)
    \/ ReadExisting(p)

----------------------------------------------------------------------------
(* The application built by create_app: Spec serves MaxReqs requests       *)

\* requests the server handles, concurrently
MaxReqs == 2
Reqs == 1..MaxReqs

Endpoints == {"GET /health", "GET /wifi", "POST /wifi", "POST /wifi/clear",
              "GET /stats"}
\* the routes declared with dependencies=[auth_dep]
Gated == {"GET /wifi", "POST /wifi", "POST /wifi/clear", "GET /stats"}

PathOf(endpoint) ==
    CASE endpoint = "GET /health" -> HealthPath
      [] endpoint = "GET /wifi" -> WifiPath
      [] endpoint = "POST /wifi" -> WifiPath
      [] endpoint = "POST /wifi/clear" -> WifiClearPath
      [] endpoint = "GET /stats" -> StatsPath

\* WifiRequest bodies, and the record the collaborators of tasks.py keep
NoBody == [ssid |-> "", psk |-> ""]
Bodies == { [ssid |-> "home", psk |-> "home-psk"],
            [ssid |-> "lab", psk |-> "lab-psk"] }
Empty == [ssid |-> "", psk |-> ""]

\* peers and Authorization headers of the requests the server receives
AppHosts == { <<"1", "0", ".", "0", ".", "0", ".", "5">>,
              <<"8", ".", "8", ".", "8", ".", "8">> }
AppHeaders == { << >>, Bearer \o <<"a", "b">>, Bearer \o <<"b", "a">> }
AppTokens == { <<"a", "b">>, << >> }

\* responses
NoResp == [status |-> 0, detail |-> "", body |-> NoBody]
Ok == [status |-> 200, detail |-> "ok", body |-> NoBody]
Stats == [status |-> 200, detail |-> "stats", body |-> NoBody]
WifiStatus(record) == [status |-> 200, detail |-> "wifi", body |-> record]
\* HTTPException(status_code, detail)
HTTPException(status_code, detail) ==
    [status |-> status_code, detail |-> detail, body |-> NoBody]
\* what the server answers when a handler lets an exception escape
InternalServerError == HTTPException(500, "Internal Server Error")
\* the rejection naming the token the server expected
Rejection_echo(code) ==
    IF code = 401 THEN HTTPException(401, "missing bearer token")
    ELSE IF token = <<"a", "b">>
         THEN HTTPException(403, "invalid token, expected ab")
         ELSE HTTPException(403, "invalid token, expected nothing")

\* the HTTPException _auth raises for a non-zero outcome
Rejection(code) ==
    IF code = 401 THEN HTTPException(401, "missing bearer token")
    ELSE HTTPException(403, "invalid token")

\* the except clause answering {"status": "ok"} for a failed switch
except_swallow(exc) ==
    IF exc = "CalledProcessError" THEN Ok ELSE InternalServerError

\* try: ... except subprocess.CalledProcessError as exc: raise
\* HTTPException(500, "wifi switch failed: ..."); any other exception leaves
\* the handler
except(exc) ==
    IF exc = "CalledProcessError"
    THEN HTTPException(500, "wifi switch failed")
    ELSE InternalServerError

\* write_wifi_conf keeping the key of a record that is already there
write_wifi_conf_merge(ssid, psk) ==
    [ssid |-> ssid, psk |-> IF conf.psk # "" THEN conf.psk ELSE psk]

\* tasks.write_wifi_conf(ssid, psk): the record is replaced as a whole
write_wifi_conf(ssid, psk) == [ssid |-> ssid, psk |-> psk]
\* tasks.clear_wifi_conf(): the record is removed; removing a record that is
\* not there is not an error
clear_wifi_conf == Empty
\* tasks.read_wifi_conf()
read_wifi_conf == conf
\* the record after a persistence call that raised: as it was
persist_failed(record) == record
\* the exception a failing persistence call raises (from the file system)
persist_raises == "OSError"
\* the exception run_switch raises: CalledProcessError for a non-zero exit
\* status; the OSError of subprocess when the executable cannot be launched
run_switch_raises(outcome) ==
    IF outcome = "nonzero" THEN "CalledProcessError" ELSE "FileNotFoundError"

\* what a GET /wifi saw: the last writer and the status it had been answered
NotSeen == [writer |-> 0, status |-> 0]

AppIdle ==
    /\ token = << >>
    /\ conf = Empty
    /\ rpc = [r \in Reqs |-> "idle"]
    /\ req = [r \in Reqs |-> [endpoint |-> "", body |-> NoBody, auth |-> 0]]
    /\ resp = [r \in Reqs |-> NoResp]
    /\ effects = [r \in Reqs |-> << >>]
    /\ persisted = [r \in Reqs |-> "none"]
    /\ switched = [r \in Reqs |-> "none"]
    /\ lastWriter = 0
    /\ seen = [r \in Reqs |-> NotSeen]

AppInit ==
    /\ token \in AppTokens
    /\ conf \in {Empty} \cup Bodies
    /\ rpc = [r \in Reqs |-> "idle"]
    /\ req = [r \in Reqs |-> [endpoint |-> "", body |-> NoBody, auth |-> 0]]
    /\ resp = [r \in Reqs |-> NoResp]
    /\ effects = [r \in Reqs |-> << >>]
    /\ persisted = [r \in Reqs |-> "none"]
    /\ switched = [r \in Reqs |-> "none"]
    /\ lastWriter = 0
    /\ seen = [r \in Reqs |-> NotSeen]

\* routes declared without dependencies=[auth_dep]
Dependencies_none(endpoint, client_host, header) == 0

\* the outcome of the route's dependencies: _auth for a gated route, nothing
\* for /health, which is declared without dependencies
Dependencies(endpoint, client_host, header) ==
    IF endpoint \in Gated
    THEN _auth(PathOf(endpoint), client_host, header, token)
    ELSE 0

\* Receive on a server that handles one request at a time: nothing is
\* accepted while a handler waits inside run_switch
Receive_serial(r) ==
    /\ rpc[r] = "idle"
    /\ \A q \in Reqs : rpc[q] # "switching"
    /\ \E e \in Endpoints, h \in AppHosts, a \in AppHeaders,
          b \in Bodies \cup {NoBody} :
          /\ (b # NoBody) <=> (e = "POST /wifi")
          /\ LET d == Dependencies(e, h, a)
             IN  /\ req' = [req EXCEPT ![r] =
                              [endpoint |-> e, body |-> b,
                               auth |-> IF e \in Gated
                                        THEN _auth(PathOf(e), h, a, token)
                                        ELSE 0]]
                 /\ IF d = 0
                    THEN /\ rpc' = [rpc EXCEPT ![r] = "handler"]
                         /\ UNCHANGED resp
                    ELSE /\ rpc' = [rpc EXCEPT ![r] = "done"]
                         /\ resp' = [resp EXCEPT ![r] = Rejection(d)]
    /\ UNCHANGED << token, conf, effects, persisted, switched, lastWriter,
                    seen >>
    /\ UNCHANGED offApp

\* a request arrives and its route's dependencies are solved: the handler
\* is entered only if none of them raised. The handlers are plain def
\* functions, so each runs on a worker thread of its own and a request is
\* accepted whatever the other requests are doing
Receive(r) ==
    /\ rpc[r] = "idle"
    /\ \E e \in Endpoints, h \in AppHosts, a \in AppHeaders,
          b \in Bodies \cup {NoBody} :
          /\ (b # NoBody) <=> (e = "POST /wifi")
          /\ LET d == Dependencies(e, h, a)
             IN  /\ req' = [req EXCEPT ![r] =
                              [endpoint |-> e, body |-> b,
                               auth |-> IF e \in Gated
                                        THEN _auth(PathOf(e), h, a, token)
                                        ELSE 0]]
                 /\ IF d = 0
                    THEN /\ rpc' = [rpc EXCEPT ![r] = "handler"]
                         /\ UNCHANGED resp
                    ELSE /\ rpc' = [rpc EXCEPT ![r] = "done"]
                         /\ resp' = [resp EXCEPT ![r] = Rejection(d)]
    /\ UNCHANGED << token, conf, effects, persisted, switched, lastWriter,
                    seen >>
    /\ UNCHANGED offApp

\* def health(): return {"status": "ok"}
health(r) ==
    /\ rpc[r] = "handler" /\ req[r].endpoint = "GET /health"
    /\ resp' = [resp EXCEPT ![r] = Ok]
    /\ rpc' = [rpc EXCEPT ![r] = "done"]
    /\ UNCHANGED << token, conf, req, effects, persisted, switched,
                    lastWriter, seen >>
    /\ UNCHANGED offApp

\* def get_wifi(): return WifiStatus(**read_wifi_conf())
get_wifi(r) ==
    /\ rpc[r] = "handler" /\ req[r].endpoint = "GET /wifi"
    /\ effects' = [effects EXCEPT ![r] = Append(@, "read_wifi_conf")]
    /\ resp' = [resp EXCEPT ![r] = WifiStatus(read_wifi_conf)]
    /\ seen' = [seen EXCEPT ![r] =
                   [writer |-> lastWriter,
                    status |-> IF lastWriter = 0 THEN 0
                               ELSE resp[lastWriter].status]]
    /\ rpc' = [rpc EXCEPT ![r] = "done"]
    /\ UNCHANGED << token, conf, req, persisted, switched, lastWriter >>
    /\ UNCHANGED offApp

\* def get_stats(): return SystemStats(**read_system_stats())
get_stats(r) ==
    /\ rpc[r] = "handler" /\ req[r].endpoint = "GET /stats"
    /\ effects' = [effects EXCEPT ![r] = Append(@, "read_system_stats")]
    /\ resp' = [resp EXCEPT ![r] = Stats]
    /\ rpc' = [rpc EXCEPT ![r] = "done"]
    /\ UNCHANGED << token, conf, req, persisted, switched, lastWriter, seen >>
    /\ UNCHANGED offApp

\* the persistence call a mutating handler starts with
PersistCall(r) ==
    IF req[r].endpoint = "POST /wifi" THEN "write_wifi_conf"
    ELSE "clear_wifi_conf"
\* the record that call leaves behind when it returns
Wanted(r) ==
    IF req[r].endpoint = "POST /wifi"
    THEN write_wifi_conf(req[r].body.ssid, req[r].body.psk)
    ELSE clear_wifi_conf

IsSet(r) == req[r].endpoint = "POST /wifi"
IsClear(r) == req[r].endpoint = "POST /wifi/clear"
Mutating(r) == req[r].endpoint \in {"POST /wifi", "POST /wifi/clear"}

\* Persist refusing to leave the record as it already is: no removal of a
\* record that is not there, no second write of the same record
Persist_strict(r) ==
    /\ rpc[r] = "handler" /\ Mutating(r)
    /\ conf # Wanted(r)
    /\ effects' = [effects EXCEPT ![r] = Append(@, PersistCall(r))]
    /\ persisted' = [persisted EXCEPT ![r] = "ok"]
    /\ conf' = Wanted(r)
    /\ lastWriter' = r
    /\ rpc' = [rpc EXCEPT ![r] = "persisted"]
    /\ UNCHANGED << token, req, resp, switched, seen >>
    /\ UNCHANGED offApp

\* first statement of the try block: write_wifi_conf(body.ssid, body.psk)
\* or clear_wifi_conf() returns
Persist(r) ==
    /\ rpc[r] = "handler" /\ Mutating(r)
    /\ effects' = [effects EXCEPT ![r] = Append(@, PersistCall(r))]
    /\ persisted' = [persisted EXCEPT ![r] = "ok"]
    /\ conf' = Wanted(r)
    /\ lastWriter' = r
    /\ rpc' = [rpc EXCEPT ![r] = "persisted"]
    /\ UNCHANGED << token, req, resp, switched, seen >>
    /\ UNCHANGED offApp

\* PersistFails going on to the next statement as if the call had returned
PersistFails_continue(r) ==
    /\ rpc[r] = "handler" /\ Mutating(r)
    /\ effects' = [effects EXCEPT ![r] = Append(@, PersistCall(r))]
    /\ persisted' = [persisted EXCEPT ![r] = "failed"]
    /\ conf' = persist_failed(conf)
    /\ rpc' = [rpc EXCEPT ![r] = "persisted"]
    /\ UNCHANGED << token, req, resp, switched, lastWriter, seen >>
    /\ UNCHANGED offApp

\* ... or raises: the rest of the try block is skipped and the except
\* clause decides the response
PersistFails(r) ==
    /\ rpc[r] = "handler" /\ Mutating(r)
    /\ effects' = [effects EXCEPT ![r] = Append(@, PersistCall(r))]
    /\ persisted' = [persisted EXCEPT ![r] = "failed"]
    /\ conf' = persist_failed(conf)
    /\ resp' = [resp EXCEPT ![r] = except(persist_raises)]
    /\ rpc' = [rpc EXCEPT ![r] = "done"]
    /\ UNCHANGED << token, req, switched, lastWriter, seen >>
    /\ UNCHANGED offApp

\* second statement of the try block: run_switch() starts the external
\* process and blocks until it exits
SwitchStart(r) ==
    /\ rpc[r] = "persisted"
    /\ effects' = [effects EXCEPT ![r] = Append(@, "run_switch")]
    /\ switched' = [switched EXCEPT ![r] = "running"]
    /\ rpc' = [rpc EXCEPT ![r] = "switching"]
    /\ UNCHANGED << token, conf, req, resp, persisted, lastWriter, seen >>
    /\ UNCHANGED offApp

\* ... or the process cannot be launched and run_switch raises at once
SwitchNotLaunched(r) ==
    /\ rpc[r] = "persisted"
    /\ effects' = [effects EXCEPT ![r] = Append(@, "run_switch")]
    /\ switched' = [switched EXCEPT ![r] = "not_launched"]
    /\ resp' = [resp EXCEPT ![r] = except(run_switch_raises("not_launched"))]
    /\ rpc' = [rpc EXCEPT ![r] = "done"]
    /\ UNCHANGED << token, conf, req, persisted, lastWriter, seen >>
    /\ UNCHANGED offApp

\* SwitchExit with the exit status of the process ignored
SwitchExit_unchecked(r) ==
    /\ rpc[r] = "switching"
    /\ \E code \in {0, 1} :
          /\ switched' = [switched EXCEPT ![r] =
                            IF code = 0 THEN "ok" ELSE "nonzero"]
          /\ resp' = [resp EXCEPT ![r] = Ok]
    /\ rpc' = [rpc EXCEPT ![r] = "done"]
    /\ UNCHANGED << token, conf, req, effects, persisted, lastWriter, seen >>
    /\ UNCHANGED offApp

\* the external process exits: status 0 lets the handler return
\* {"status": "ok"}, any other status makes run_switch raise
SwitchExit(r) ==
    /\ rpc[r] = "switching"
    /\ \E code \in {0, 1} :
          /\ switched' = [switched EXCEPT ![r] =
                            IF code = 0 THEN "ok" ELSE "nonzero"]
          /\ resp' = [resp EXCEPT ![r] =
                        IF code = 0 THEN Ok
                        ELSE except(run_switch_raises("nonzero"))]
    /\ rpc' = [rpc EXCEPT ![r] = "done"]
    /\ UNCHANGED << token, conf, req, effects, persisted, lastWriter, seen >>
    /\ UNCHANGED offApp

\* def set_wifi(body)
set_wifi(r) ==
    \/ IsSet(r) /\ Persist(r)
    \/ IsSet(r) /\ PersistFails(r)
    \/ IsSet(r) /\ SwitchStart(r)
    \/ IsSet(r) /\ SwitchNotLaunched(r)
    \/ IsSet(r) /\ SwitchExit(r)

\* def clear_wifi()
clear_wifi(r) ==
    \/ IsClear(r) /\ Persist(r)
    \/ IsClear(r) /\ PersistFails(r)
    \/ IsClear(r) /\ SwitchStart(r)
    \/ IsClear(r) /\ SwitchNotLaunched(r)
    \/ IsClear(r) /\ SwitchExit(r)

----------------------------------------------------------------------------
(* The gate over the lifetime of one process: SpecLife starts the process  *)
(* on an existing token file, then lets requests arrive one after another  *)
(* while the token file is changed or removed under it                     *)

LifePaths == { HealthPath, WifiPath }
LifeHosts == AppHosts
LifeHeaders == { << >>, Bearer, Bearer \o <<" ">>, Bearer \o <<"a", "b">>,
                 Bearer \o <<"b", "a">> }
\* the requests a process holding the token t can be sent: auth_dep =
\* require_auth(token) has captured t
LifeCalls(t) ==
    [path : LifePaths, client_host : LifeHosts, header : LifeHeaders,
     required_token : {t}]

\* create_app on an existing file: token = load_or_create_token(token_path)
\* is path.read_text().strip(); the first request has arrived
LifeInit ==
    /\ file \in {[exists |-> TRUE, content |-> c] : c \in InitContents}
    /\ token = strip(file.content)
    /\ call \in LifeCalls(token)
    /\ verdict = -1
    /\ kept = NoKept
    /\ tpc = [p \in Procs |-> "idle"]
    /\ tok = [p \in Procs |-> << >>]
    /\ ret = [p \in Procs |-> << >>]
    /\ created = {}
    /\ started = << >>
    /\ overlap = FALSE
    /\ server = [p \in Procs |-> "none"]
    /\ conf = Empty
    /\ rpc = [r \in Reqs |-> "idle"]
    /\ req = [r \in Reqs |-> [endpoint |-> "", body |-> NoBody, auth |-> 0]]
    /\ resp = [r \in Reqs |-> NoResp]
    /\ effects = [r \in Reqs |-> << >>]
    /\ persisted = [r \in Reqs |-> "none"]
    /\ switched = [r \in Reqs |-> "none"]
    /\ lastWriter = 0
    /\ seen = [r \in Reqs |-> NotSeen]
    /\ TrustIdle

\* the next request arrives after the last one was decided; the decision
\* just made may be put on record, with the token file as it was then
Arrive ==
    /\ verdict # -1
    /\ call' \in LifeCalls(token)
    /\ verdict' = -1
    /\ kept' \in {kept, [call |-> call, verdict |-> verdict, file |-> file]}
    /\ UNCHANGED << storeVars, server, appVars, trustVars >>

\* somebody rewrites or removes the token file while the process runs
TokenFileChanged ==
    /\ file' \in ({Absent} \cup {[exists |-> TRUE, content |-> c] :
                                   c \in InitContents}) \ {file}
    /\ UNCHANGED << tpc, tok, ret, created, started, overlap >>
    /\ UNCHANGED offStore

----------------------------------------------------------------------------
(* Specifications                                                          *)

\* the gate applied to every combination of inputs
SpecGateInit == GateInit /\ StoreIdle /\ AppIdle /\ TrustIdle /\ kept = NoKept
SpecGateNext == Authorize
SpecGate == SpecGateInit /\ [][SpecGateNext]_vars

\* the classifier alone
SpecTrustInit == GateIdle /\ StoreIdle /\ AppIdle /\ TrustInit /\ kept = NoKept
SpecTrustNext == Classify
SpecTrust == SpecTrustInit /\ [][SpecTrustNext]_vars

\* one process, its requests and its token file
SpecLifeInit == LifeInit
SpecLifeNext == Arrive \/ Authorize \/ TokenFileChanged
SpecLife == SpecLifeInit /\ [][SpecLifeNext]_vars

\* processes starting against one token_path
SpecStoreInit == GateIdle /\ StoreInit /\ AppIdle /\ TrustIdle /\ kept = NoKept
SpecStoreNext ==
    \E p \in Procs :
        \/ load_or_create_token(p)
        \/ Crash(p)
        \/ create_app(p)
        \/ main(p)
SpecStore == SpecStoreInit /\ [][SpecStoreNext]_vars

\* the application serving requests
Init == GateIdle /\ StoreIdle /\ AppInit /\ TrustIdle /\ kept = NoKept
Next ==
    \E r \in Reqs :
        \/ Receive(r)
        \/ health(r)
        \/ get_wifi(r)
        \/ set_wifi(r)
        \/ clear_wifi(r)
        \/ get_stats(r)
Spec == Init /\ [][Next]_vars

----------------------------------------------------------------------------
(* Properties of the gate (SpecGate)                                       *)

\* the header carries the scheme "Bearer "
HasBearerScheme(h) ==
    Len(h) >= Len(Bearer) /\ SubSeq(h, 1, Len(Bearer)) = Bearer
\* the text after the scheme
AfterBearer(h) == SubSeq(h, Len(Bearer) + 1, Len(h))
\* t is s without its surrounding whitespace
IsTrimOf(t, s) ==
    \E i \in 0..Len(s), j \in 0..Len(s) :
        /\ i + j <= Len(s)
        /\ \A k \in 1..i : s[k] \in Whitespace
        /\ \A k \in (Len(s) - j + 1)..Len(s) : s[k] \in Whitespace
        /\ t = SubSeq(s, i + 1, Len(s) - j)
        /\ (t # << >> => t[1] \notin Whitespace /\ t[Len(t)] \notin Whitespace)
\* the header presents exactly the required token
PresentsToken(h, required) ==
    HasBearerScheme(h) /\ IsTrimOf(required, AfterBearer(h))

Evaluated == verdict # -1
Untrusted == ~_is_trusted_host(call.client_host)

\* C1: for a path other than "/health" and an untrusted peer the gate
\* answers 401 when the Authorization header is absent or lacks the
\* "Bearer " scheme, else 403 when the trimmed text after the scheme is not
\* the required token, else it allows.
C1_GateOrder ==
    (Evaluated /\ call.path # HealthPath /\ Untrusted) =>
        verdict = IF ~HasBearerScheme(call.header) THEN 401
                  ELSE IF ~IsTrimOf(call.required_token,
                                    AfterBearer(call.header)) THEN 403
                  ELSE 0

\* an untrusted peer presented a padded credential that was compared
C1_Witness ==
    /\ Evaluated /\ Untrusted /\ call.path = WifiPath
    /\ HasBearerScheme(call.header)
    /\ AfterBearer(call.header) # strip(AfterBearer(call.header))
    /\ verdict = 403

\* C2: a trusted peer is allowed whatever the path and the Authorization
\* header; it never receives 401 or 403.
C2_TrustedPeerAllowed ==
    (Evaluated /\ ~Untrusted) => verdict = 0

\* a trusted peer was let through to a gated path with a malformed scheme
C2_Witness ==
    /\ Evaluated /\ ~Untrusted /\ call.path = WifiClearPath
    /\ call.header # << >> /\ ~HasBearerScheme(call.header)
    /\ verdict = 0

\* C3: the path "/health" is allowed for every peer, header and required
\* token; a longer path that starts with "/health" is not allowed to an
\* untrusted peer that presents no valid token.
C3_HealthBypassExact ==
    Evaluated =>
        /\ call.path = HealthPath => verdict = 0
        /\ ( /\ call.path # HealthPath
             /\ startswith(call.path, HealthPath)
             /\ Untrusted
             /\ ~PresentsToken(call.header, call.required_token) )
           => verdict \in {401, 403}

\* "/health" was allowed to 8.8.8.8 with no header and an empty token
C3_Witness ==
    /\ Evaluated /\ call.path = HealthPath
    /\ call.client_host = <<"8", ".", "8", ".", "8", ".", "8">>
    /\ call.header = << >> /\ call.required_token = << >>
    /\ verdict = 0

----------------------------------------------------------------------------
(* Properties of the application (Spec)                                    *)

Called(r, name) == \E i \in 1..Len(effects[r]) : effects[r][i] = name
CalledNext(r, name) == \E i \in 1..Len(effects'[r]) : effects'[r][i] = name
SwitchFailed500 == HTTPException(500, "wifi switch failed")

\* C4: a request to a gated endpoint that the gate rejects with 401 or 403
\* is answered with that status and no collaborator call (config write,
\* config clear, switch trigger, config read, stats read) is ever made on
\* its behalf.
C4_RejectedNeverHandled ==
    \A r \in Reqs :
        req[r].auth \in {401, 403} =>
            /\ effects[r] = << >>
            /\ persisted[r] = "none" /\ switched[r] = "none"
            /\ lastWriter # r
            /\ rpc[r] = "done" /\ resp[r].status = req[r].auth

\* a POST /wifi was rejected while another request changed the record
C4_Witness ==
    \E r \in Reqs, q \in Reqs :
        /\ req[r].endpoint = "POST /wifi" /\ req[r].auth = 403
        /\ rpc[r] = "done" /\ effects[r] = << >>
        /\ q # r /\ Called(q, "clear_wifi_conf") /\ Called(q, "run_switch")

\* C5: when the persistence call of a set or clear request fails, the
\* record is left as it was, the switch trigger is not invoked for that
\* request, and the request is answered with an error, not {status: ok}.
C5_FailedPersistenceStops ==
    [][\A r \in Reqs :
          persisted'[r] = "failed" =>
              /\ persisted[r] # "failed" => conf' = conf
              /\ ~CalledNext(r, "run_switch")
              /\ switched'[r] = "none"
              /\ rpc'[r] = "done"
              /\ resp'[r].status = 500 /\ resp'[r] # Ok]_vars

\* a set whose write failed was answered 500 and left another record
C5_Witness ==
    \E r \in Reqs :
        /\ req[r].endpoint = "POST /wifi" /\ persisted[r] = "failed"
        /\ rpc[r] = "done" /\ resp[r].status = 500
        /\ effects[r] = << "write_wifi_conf" >>
        /\ conf # Wanted(r)

\* C6: when persistence succeeded and the switch trigger exited non-zero,
\* the request is answered with status 500, never {status: ok}, and the
\* change stays: while no later persistence step has completed the record
\* holds the values written (or is empty after a clear), and a GET /wifi
\* made after the 500 returns them.
C6_TriggerFailureKeepsChange ==
    \A r \in Reqs :
        switched[r] = "nonzero" =>
            /\ rpc[r] = "done" /\ resp[r].status = 500 /\ resp[r] # Ok
            /\ persisted[r] = "ok"
            /\ lastWriter = r => conf = Wanted(r)
            /\ \A g \in Reqs :
                  ( /\ req[g].endpoint = "GET /wifi" /\ rpc[g] = "done"
                    /\ seen[g] = [writer |-> r, status |-> 500] )
                  => resp[g] = WifiStatus(Wanted(r))

\* a set answered 500 for the switch, then a GET /wifi returned its values
C6_Witness ==
    \E r \in Reqs, g \in Reqs :
        /\ req[r].endpoint = "POST /wifi" /\ switched[r] = "nonzero"
        /\ resp[r].status = 500
        /\ req[g].endpoint = "GET /wifi" /\ rpc[g] = "done"
        /\ seen[g] = [writer |-> r, status |-> 500]
        /\ resp[g].body = req[r].body

\* C7: a set or clear request is answered with the status-500 response
\* "wifi switch failed: ..." exactly when its persistence step succeeded and
\* the switch trigger then failed, whether the process exited non-zero or
\* could not be launched.
C7_PartialFailureDistinct ==
    \A r \in Reqs :
        (rpc[r] = "done" /\ Mutating(r)) =>
            ( resp[r] = SwitchFailed500
              <=> ( /\ persisted[r] = "ok"
                    /\ switched[r] \in {"nonzero", "not_launched"} ) )

----------------------------------------------------------------------------
(* Properties of the token store (SpecStore)                               *)

Returned(p) == tpc[p] = "done"
Generated == {p \in Procs : tok[p] # << >>}

\* C8: when load_or_create_token is called repeatedly in sequence (no call
\* overlaps another), any two calls that return give the same token, and
\* the later one neither creates the file nor generates a token: it only
\* reads.
C8_TwiceInSequence ==
    ~overlap =>
        \A i \in 1..Len(started), j \in 1..Len(started) :
            (i < j /\ Returned(started[i]) /\ Returned(started[j])) =>
                /\ ret[started[j]] = ret[started[i]]
                /\ started[j] \notin created
                /\ started[j] \notin Generated

\* a first call created the file, a second call made after it returned
\* read the same token back
C8_Witness ==
    /\ ~overlap /\ Len(started) >= 2
    /\ Returned(started[1]) /\ Returned(started[2])
    /\ started[1] \in created
    /\ ret[started[1]] \in token_hex(TokenBytes)
    /\ ret[started[2]] = ret[started[1]]
    /\ file.content = ret[started[1]]

\* C9: over every interleaving of load_or_create_token calls on one path,
\* at most one token is ever generated and every call that returns gives
\* the same token.
C9_ExactlyOnce ==
    /\ Cardinality(Generated) <= 1
    /\ \A p \in Procs, q \in Procs :
          (Returned(p) /\ Returned(q)) => ret[p] = ret[q]

\* C10: once a call has set out to create the file, the file at the path is
\* either absent or holds a complete generated token, and every call that
\* found the file existing returns a complete generated token.
C10_AtomicWrite ==
    created # {} =>
        /\ file.exists => file.content \in token_hex(TokenBytes)
        /\ \A p \in Procs :
              (Returned(p) /\ p \notin created) =>
                  ret[p] \in token_hex(TokenBytes)

\* C11: when load_or_create_token raises because the directory cannot be
\* created or the file cannot be written, the process never constructs the
\* application, never binds the port and never serves a request; a server only
\* ever runs with a token that load_or_create_token returned.
C11_StartupAborts ==
    \A p \in Procs :
        /\ tpc[p] = "failed" => server[p] = "none"
        /\ server[p] # "none" => Returned(p)

\* one start-up failed on the directory and stayed down while another
\* process came up and served
C11_Witness ==
    \E p \in Procs, q \in Procs :
        /\ tpc[p] = "failed" /\ p \in created /\ server[p] = "none"
        /\ server[q] = "serving"

----------------------------------------------------------------------------
(* Properties of the classifier (SpecTrust)                                *)

Parsed == IsV4(peer) \/ IsV6(peer)

\* the classes the classifier is described by: loopback, private range
\* (RFC1918, unique-local), link-local; an IPv4-mapped IPv6 address is
\* read by the IPv4 address it carries
V4Local(o) == V4Loopback(o) \/ V4Rfc1918(o) \/ V4LinkLocal(o)
V6Local(h) ==
    IF V6Mapped(h) THEN V4Local(V6MappedOctets(h))
    ELSE V6Loopback(h) \/ V6UniqueLocal(h) \/ V6LinkLocal(h)
LocalAddress ==
    IF IsV4(peer) THEN V4Local(V4Octets(peer))
    ELSE V6Local(V6Hextets(peer))

\* C12: a peer that parses as an IPv4 or IPv6 literal is trusted if and
\* only if it is loopback, RFC1918 / unique-local, or link-local.
C12_TrustedIffLocal ==
    (trust # "" /\ Parsed) => (trust = "True" <=> LocalAddress)

\* C13: the classifier answers for every peer text and never raises: the
\* empty peer is not trusted, the three literal names are trusted, and a
\* peer that is neither a literal name nor a parsable address is not trusted.
C13_TotalClassifier ==
    trust # "" =>
        /\ trust \in {"True", "False"}
        /\ peer = << >> => trust = "False"
        /\ peer \in LiteralHosts => trust = "True"
        /\ (peer \notin LiteralHosts /\ ~Parsed) => trust = "False"

\* the name localhost, which no address parser accepts, classified trusted
C13_Witness == peer = localhost /\ ~Parsed /\ trust = "True"

----------------------------------------------------------------------------
(* Properties of the configuration record (Spec)                           *)

\* the record the persistence step of request r asked for
RecordOf(r) == IF IsSet(r) THEN req[r].body ELSE Empty

\* C14: under every interleaving of set and clear requests the record is
\* never torn (it is empty, or the SSID and key of one single set), it is
\* the record of the last persistence step that completed, and a GET /wifi
\* answers with the record of the last persistence step completed before
\* its read.
C14_NoTornLastWins ==
    /\ conf \in {Empty} \cup Bodies
    /\ lastWriter # 0 => conf = RecordOf(lastWriter)
    /\ \A r \in Reqs :
          (req[r].endpoint = "GET /wifi" /\ rpc[r] = "done"
             /\ resp[r].status = 200 /\ seen[r].writer # 0)
          => resp[r].body = RecordOf(seen[r].writer)

\* two sets of different records overlap: the second persisted while the
\* first was still inside its trigger, and the record is the second's
C14_Witness ==
    \E r \in Reqs, q \in Reqs :
        /\ r # q /\ IsSet(r) /\ IsSet(q) /\ req[r].body # req[q].body
        /\ rpc[r] = "switching" /\ persisted[q] = "ok" /\ lastWriter = q
        /\ conf = req[q].body

\* C15: set and clear are idempotent. Whatever the record is when a set or
\* clear handler runs (no record, the same record, another record) its
\* persistence call can return, and it leaves exactly the record the request
\* asked for; a request answered ok whose write was the last one left that
\* record and nothing of an earlier one.
C15_Idempotent ==
    \A r \in Reqs :
        /\ (rpc[r] = "handler" /\ Mutating(r))
           => ENABLED (Persist(r) /\ conf' = RecordOf(r))
        /\ (Mutating(r) /\ resp[r] = Ok /\ lastWriter = r)
           => conf = RecordOf(r)

\* two clears, one after the other, both answered ok and no record left
C15_Witness ==
    \E r \in Reqs, q \in Reqs :
        /\ r # q /\ IsClear(r) /\ IsClear(q)
        /\ resp[r] = Ok /\ resp[q] = Ok /\ lastWriter = q
        /\ conf = Empty

----------------------------------------------------------------------------
(* Properties of the gate over the process lifetime (SpecLife)             *)

SameRequest(c, d) ==
    c.path = d.path /\ c.client_host = d.client_host /\ c.header = d.header

\* C16: the decision is stateless. A step that decides a request changes
\* nothing but the decision (not the required token, the token file, the
\* configuration record or the calls made to the collaborators), and it
\* gives the decision that the same path, peer and header were given
\* earlier, whatever was decided in between and whatever has happened to the
\* token file since.
C16_Stateless ==
    [][ (verdict = -1 /\ verdict' # -1)
        => /\ UNCHANGED << token, file, conf, effects, persisted, switched,
                           call, kept >>
           /\ (kept.verdict # -1 /\ SameRequest(kept.call, call))
              => verdict' = kept.verdict ]_vars

\* an untrusted peer's token was accepted, the token file was then removed,
\* and the same request was accepted again
C16_Witness ==
    /\ verdict = 0 /\ kept.verdict = 0 /\ SameRequest(kept.call, call)
    /\ call.path = WifiPath /\ Untrusted /\ call.header # << >>
    /\ kept.file.exists /\ file = Absent

----------------------------------------------------------------------------
(* Properties of the responses (Spec)                                      *)

\* the detail texts the code holds as constants
FixedDetails ==
    {"missing bearer token", "invalid token", "wifi switch failed",
     "Internal Server Error"}

\* C17: no token value is echoed. Every 401 is the same response and every
\* 403 is the same response, whatever the required token and whatever token
\* was presented, and every error response carries one of the fixed detail
\* texts and no body.
C17_NoTokenEchoed ==
    \A r \in Reqs :
        /\ resp[r].status = 401
           => resp[r] = [status |-> 401, detail |-> "missing bearer token",
                         body |-> NoBody]
        /\ resp[r].status = 403
           => resp[r] = [status |-> 403, detail |-> "invalid token",
                         body |-> NoBody]
        /\ resp[r].status >= 400
           => resp[r].detail \in FixedDetails /\ resp[r].body = NoBody

\* a server holding the token ab has rejected one request for its wrong
\* token and another for its missing token
C17_Witness ==
    /\ token = <<"a", "b">>
    /\ \E r \in Reqs, q \in Reqs :
          /\ req[r].auth = 403 /\ resp[r].status = 403
          /\ req[q].auth = 401 /\ resp[q].status = 401

\* C18: the blocking run_switch call holds up only its own request. While a
\* set or clear request waits inside the trigger, any other request can be
\* accepted and pass the gate (GET /health and GET /stats among them), and
\* one that has entered its handler can complete.
C18_TriggerIsolated ==
    \A r \in Reqs, q \in Reqs :
        (r # q /\ rpc[r] = "switching")
        => /\ rpc[q] = "idle"
              => /\ ENABLED Receive(q)
                 /\ \A h \in AppHosts, a \in AppHeaders :
                       Dependencies("GET /health", h, a) = 0
                 /\ \E h \in AppHosts, a \in AppHeaders :
                       Dependencies("GET /stats", h, a) = 0
           /\ (rpc[q] = "handler" /\ req[q].endpoint = "GET /health")
              => ENABLED health(q)
           /\ (rpc[q] = "handler" /\ req[q].endpoint = "GET /stats")
              => ENABLED get_stats(q)

\* a GET /stats has been answered while a set still waits in the trigger
C18_Witness ==
    \E r \in Reqs, q \in Reqs :
        /\ r # q /\ IsSet(r) /\ rpc[r] = "switching" /\ resp[r] = NoResp
        /\ req[q].endpoint = "GET /stats" /\ rpc[q] = "done"
        /\ resp[q] = Stats

----------------------------------------------------------------------------
(* Properties of the gate behind a token file (SpecLife)                   *)

\* the request presents no token value: no Authorization header, or the
\* scheme followed by nothing but whitespace
NoTokenValue(h) ==
    h = << >> \/ (HasBearerScheme(h) /\ strip(AfterBearer(h)) = << >>)

\* C19: whatever the token file held when the process started, a request
\* from an untrusted peer to a path other than "/health" that presents no
\* token value is rejected.
C19_NoTokenNeverAllowed ==
    (Evaluated /\ call.path # HealthPath /\ Untrusted
       /\ NoTokenValue(call.header))
    => verdict # 0

----------------------------------------------------------------------------
(* Properties of the mutating handlers (Spec)                              *)

\* C20: a POST /wifi or POST /wifi/clear answered {status: ok} has called
\* run_switch exactly once, after its own persistence call had returned, and
\* the process it started had exited with status 0 before the response;
\* whatever other set and clear requests did in between.
C20_OkMeansSwitched ==
    \A r \in Reqs :
        (Mutating(r) /\ resp[r] = Ok)
        => /\ effects[r] = << PersistCall(r), "run_switch" >>
           /\ persisted[r] = "ok"
           /\ switched[r] = "ok"
           /\ rpc[r] = "done"

\* a set answered ok although a clear overwrote its record before its
\* trigger had finished: the clear is still waiting in its own trigger
C20_Witness ==
    \E r \in Reqs, q \in Reqs :
        /\ r # q /\ IsSet(r) /\ resp[r] = Ok /\ switched[r] = "ok"
        /\ IsClear(q) /\ lastWriter = q /\ rpc[q] = "switching"

====
